---- MODULE Spec2Model ----
(***************************************************************************)
(* A state-machine model of wp2git (src/wp2git/wp2git.py): the export loop *)
(* of main() that merges the revision histories of several articles by     *)
(* timestamp, rebuilds each revision's text from the byte-offset diff of   *)
(* the REST compare endpoint, resolves fast-import marks on demand and     *)
(* writes the fast-import stream.                                          *)
(*                                                                         *)
(* Texts, comments and hashes are sequences of one-character strings, so   *)
(* that slicing, prefix tests, digit tests and decimal parsing are computed*)
(* as the code computes them.                                              *)
(***************************************************************************)
EXTENDS Integers, Sequences, FiniteSets, TLC

(***************************************************************************)
(* Bounds of the model.                                                    *)
(***************************************************************************)
\* most lines a base text of the patch specification has
MaxLines == 2
\* most entries of a script that are not plain copies (patch specification)
MaxOps == 2
\* a page's history is drawn with at most MaxHist revisions, or with one more
\* revision than the revision iterator yields
MaxHist == 2
\* the largest timestamp of a revision
MaxTs == 1
\* most details of one run: the numeric tokens of its comments and the
\* revisions whose text differs from their parent's
MaxDetail == 2

(***************************************************************************)
(* bytes objects: Python's slicing and tests                               *)
(***************************************************************************)
NL == "\n"

Digits == <<"0", "1", "2", "3", "4", "5", "6", "7", "8", "9">>

Min(a, b) == IF a < b THEN a ELSE b

Max(a, b) == IF a > b THEN a ELSE b

\* s[a:b] for 0 <= a, 0 <= b (Python clamps both ends to len(s))
Slice(s, a, b) == SubSeq(s, Min(a, Len(s)) + 1, Min(b, Len(s)))

\* s[a:]
SliceFrom(s, a) == Slice(s, a, Len(s))

\* s.startswith(p)
StartsWith(s, p) == Len(p) <= Len(s) /\ SubSeq(s, 1, Len(p)) = p

\* str.isdigit(): every character a digit, and at least one character
IsDigit(s) == Len(s) > 0 /\ \A i \in 1..Len(s) : \E d \in 1..10 : Digits[d] = s[i]

RECURSIVE JoinLines(_)
\* '\n'.join(lines)
JoinLines(lines) ==
  IF lines = <<>> THEN <<>>
  ELSE IF Len(lines) = 1 THEN lines[1]
  ELSE lines[1] \o <<NL>> \o JoinLines(Tail(lines))

(***************************************************************************)
(* The diff of the compare endpoint: a sequence of entries                 *)
(*   [type, text, from, to, ranges]                                        *)
(* with byte offsets into the old ("from") and the new ("to") text; an     *)
(* offset the service leaves null is NoOffset.                             *)
(***************************************************************************)
NoOffset == -1

TyContext == 0
TyAdd == 1
TyDelete == 2
TyChange == 3
TyMoveFrom == 4
TyMoveTo == 5

\* highlightRanges types
HlAdd == 0
HlDelete == 1

Entry(ty, text, from, to, ranges) ==
  [type |-> ty, text |-> text, from |-> from, to |-> to, ranges |-> ranges]

\* the state of the reconstruction loop: err is "" until a statement raises
PatchState(err, output, from_pos) ==
  [err |-> err, output |-> output, from_pos |-> from_pos]

\* lines 201-203 and 232-234: skip the '\n' that follows the line, if any
SkipNewline(prevtext, st) ==
  IF st.from_pos = Len(prevtext) THEN st
  ELSE IF st.from_pos > Len(prevtext) THEN [st EXCEPT !.err = "IndexError"]
  ELSE IF prevtext[st.from_pos + 1] # NL THEN [st EXCEPT !.err = "AssertionError"]
  ELSE [st EXCEPT !.from_pos = @ + 1]

RECURSIVE ApplyRanges(_, _, _, _)
\* lines 215-229: acc = [err, output, pos, drop]
ApplyRanges(text, ranges, k, acc) ==
  IF acc.err # "" THEN acc
  ELSE IF k > Len(ranges)
  THEN [acc EXCEPT !.output = @ \o SliceFrom(text, acc.pos) \o <<NL>>]
  ELSE
    LET r == ranges[k]
        start == r.start
        end == r.start + r.length
        between == acc.output \o Slice(text, acc.pos, start)
    IN  IF r.type = HlAdd
        THEN IF ~(start <= end /\ end <= Len(text))
             THEN [acc EXCEPT !.err = "AssertionError"]
             ELSE ApplyRanges(text, ranges, k + 1,
                    [acc EXCEPT !.output = between \o Slice(text, start, end),
                                !.pos = end,
                                !.drop = @ + (end - start)])
        ELSE IF r.type # HlDelete
             THEN [acc EXCEPT !.err = "AssertionError"]
             ELSE ApplyRanges(text, ranges, k + 1,
                    [acc EXCEPT !.output = between, !.pos = end])

\* lines 176-181: a context entry is only checked
ApplyContext(prevtext, d, st) ==
  IF d.from >= st.from_pos
     /\ d.from + Len(d.text) <= Len(prevtext)
     /\ d.to >= Len(st.output)
     /\ StartsWith(SliceFrom(prevtext, d.from), d.text)
  THEN st
  ELSE [st EXCEPT !.err = "AssertionError"]

\* lines 182-190
ApplyAdd(prevtext, d, st) ==
  LET nn == st.from_pos + (d.to - Len(st.output))
  IN  IF ~(Len(prevtext) >= nn /\ nn >= st.from_pos)
      THEN [st EXCEPT !.err = "AssertionError"]
      ELSE PatchState("", st.output \o Slice(prevtext, st.from_pos, nn) \o d.text \o <<NL>>, nn)

\* lines 191-203: the text is looked for at from_pos, which the copy up to
\* offset.from has not moved
ApplyDelete(prevtext, d, st) ==
  LET nn == d.from
  IN  IF ~(Len(prevtext) >= nn /\ nn >= st.from_pos)
      THEN [st EXCEPT !.err = "AssertionError"]
      ELSE IF ~StartsWith(SliceFrom(prevtext, st.from_pos), d.text)
      THEN [st EXCEPT !.err = "AssertionError"]
      ELSE SkipNewline(prevtext,
             PatchState("", st.output \o Slice(prevtext, st.from_pos, nn),
                        st.from_pos + Len(d.text)))

\* lines 204-234
ApplyChange(prevtext, d, st) ==
  LET nn == d.from
      copied == st.output \o Slice(prevtext, st.from_pos, nn)
  IN  IF ~(Len(prevtext) >= nn /\ nn >= st.from_pos)
      THEN [st EXCEPT !.err = "AssertionError"]
      ELSE IF d.to # NoOffset /\ Len(copied) # d.to
      THEN [st EXCEPT !.err = "AssertionError"]
      ELSE
        LET acc == ApplyRanges(d.text, d.ranges, 1,
                     [err |-> "", output |-> copied, pos |-> 0, drop |-> 0])
        IN  IF acc.err # "" THEN [st EXCEPT !.err = acc.err]
            ELSE SkipNewline(prevtext,
                   PatchState("", acc.output, nn + Len(d.text) - acc.drop))

\* lines 163-241: one iteration of the loop over res.json()['diff']
ApplyEntry(prevtext, d, st) ==
  IF d.type = TyContext THEN ApplyContext(prevtext, d, st)
  ELSE IF d.type = TyAdd THEN ApplyAdd(prevtext, d, st)
  ELSE IF d.type = TyDelete THEN ApplyDelete(prevtext, d, st)
  ELSE IF d.type = TyChange THEN ApplyChange(prevtext, d, st)
  ELSE IF d.type \in {TyMoveFrom, TyMoveTo} THEN st
  ELSE [st EXCEPT !.err = "AssertionError"]

RECURSIVE ApplyFrom(_, _, _, _)
ApplyFrom(prevtext, diff, k, st) ==
  IF st.err # "" THEN st
  ELSE IF k > Len(diff)
  THEN [st EXCEPT !.output = @ \o SliceFrom(prevtext, st.from_pos)]
  ELSE ApplyFrom(prevtext, diff, k + 1, ApplyEntry(prevtext, diff[k], st))

\* lines 160-244: output, or the error of the first statement that raises
ApplyDiff(prevtext, diff) == ApplyFrom(prevtext, diff, 1, PatchState("", <<>>, 0))

\* line 248: output.decode() not in (text, text+'\n')
CrossCheck(output, text) == output = text \/ output = text \o <<NL>>

(***************************************************************************)
(* The revision service's side of a diff.  A script says, for each line of *)
(* the old text, whether the new text keeps it without showing it ("keep"),*)
(* keeps it and shows it as context ("ctx"), deletes it ("del") or changes *)
(* it to another line ("chg"), and which line, if any, the new text inserts*)
(* before it and after the last one.  ScriptResult computes the new text   *)
(* and the diff entries of the script, with the byte offsets of each line  *)
(* in the old and in the new text.                                         *)
(***************************************************************************)
\* the lines texts are made of; NoLine stands for "no line inserted here"
Lines == {<<"a">>, <<"b">>, <<"a", "b">>}

NoLine == <<>>

Op(op, to) == [op |-> op, to |-> to]

OpsOf(line) ==
  {Op("keep", NoLine), Op("ctx", NoLine), Op("del", NoLine)}
    \cup {Op("chg", y) : y \in Lines \ {line}}

\* what a changed line looks like in the diff: the deleted text, then the added
ChangeEntry(old, new, from, to) ==
  Entry(TyChange, old \o new, from, to,
        << [start |-> 0, length |-> Len(old), type |-> HlDelete],
           [start |-> Len(old), length |-> Len(new), type |-> HlAdd] >>)

RECURSIVE ScriptFrom(_, _, _, _, _, _, _)
ScriptFrom(S, sc, i, offS, offT, T, D) ==
  LET ins == sc.ins[i]
      T1 == IF ins = NoLine THEN T ELSE Append(T, ins)
      D1 == IF ins = NoLine THEN D
            ELSE Append(D, Entry(TyAdd, ins, NoOffset, offT, <<>>))
      offT1 == IF ins = NoLine THEN offT ELSE offT + Len(ins) + 1
  IN  IF i > Len(S) THEN [lines |-> T1, diff |-> D1]
      ELSE
        LET line == S[i]
            o == sc.ops[i]
            nextS == offS + Len(line) + 1
        IN  CASE o.op = "keep" ->
                   ScriptFrom(S, sc, i + 1, nextS, offT1 + Len(line) + 1,
                              Append(T1, line), D1)
              [] o.op = "ctx" ->
                   ScriptFrom(S, sc, i + 1, nextS, offT1 + Len(line) + 1,
                              Append(T1, line),
                              Append(D1, Entry(TyContext, line, offS, offT1, <<>>)))
              [] o.op = "del" ->
                   ScriptFrom(S, sc, i + 1, nextS, offT1, T1,
                              Append(D1, Entry(TyDelete, line, offS, NoOffset, <<>>)))
              [] o.op = "chg" ->
                   ScriptFrom(S, sc, i + 1, nextS, offT1 + Len(o.to) + 1,
                              Append(T1, o.to),
                              Append(D1, ChangeEntry(line, o.to, offS, offT1)))

ScriptResult(S, sc) == ScriptFrom(S, sc, 1, 0, 0, <<>>, <<>>)

\* the entries of a script that are not plain copies
ScriptOps(sc) ==
  Cardinality({i \in DOMAIN sc.ops : sc.ops[i].op \in {"del", "chg"}})
    + Cardinality({g \in DOMAIN sc.ins : sc.ins[g] # NoLine})

\* the scripts over the lines S with at most maxops changes
Scripts(S, maxops) ==
  {sc \in [ops : {f \in [1..Len(S) -> UNION {OpsOf(l) : l \in Lines}] :
                     \A i \in 1..Len(S) : f[i] \in OpsOf(S[i])},
           ins : [1..(Len(S) + 1) -> Lines \cup {NoLine}]] :
     ScriptOps(sc) <= maxops}

\* the script that changes nothing and shows nothing
Identity(S) ==
  [ops |-> [i \in 1..Len(S) |-> Op("keep", NoLine)],
   ins |-> [g \in 1..(Len(S) + 1) |-> NoLine]]

\* sc with every kept line shown as context
WithContext(sc) ==
  [sc EXCEPT !.ops = [i \in DOMAIN sc.ops |->
                        IF sc.ops[i].op = "keep" THEN Op("ctx", NoLine) ELSE sc.ops[i]]]

\* the scripts of at most one change, with every kept line shown as context
SingleScripts(S) ==
  LET id == Identity(S)
      one == {[id EXCEPT !.ops[i] = o] : i \in 1..Len(S), o \in {Op("del", NoLine)}}
               \cup UNION {{[id EXCEPT !.ops[i] = Op("chg", y)] : y \in Lines \ {S[i]}} :
                             i \in 1..Len(S)}
               \cup {[id EXCEPT !.ins[g] = y] : g \in 1..(Len(S) + 1), y \in Lines}
  IN  {id} \cup {WithContext(sc) : sc \in one}

\* the texts of at least one and at most n lines, as sequences of lines
TextsUpTo(n) == UNION {[1..k -> Lines] : k \in 1..n}

(***************************************************************************)
(* Command line and revision service                                       *)
(***************************************************************************)
\* args.article_name: the pages asked for
article_name == << <<"A">>, <<"B", ":", "C">> >>

Articles == 1..Len(article_name)

\* line 110: max_items of page.revisions()
max_items == 10

RECURSIVE ReplaceChar(_, _, _)
\* s.replace(c, r) for single characters
ReplaceChar(s, c, r) ==
  IF s = <<>> THEN <<>>
  ELSE <<IF s[1] = c THEN r ELSE s[1]>> \o ReplaceChar(Tail(s), c, r)

RECURSIVE SanitizeFrom(_, _, _)
SanitizeFrom(s, forbidden, k) ==
  IF k > Len(forbidden) THEN s
  ELSE SanitizeFrom(ReplaceChar(s, forbidden[k], "_"), forbidden, k + 1)

\* lines 24-28
sanitize(s) == SanitizeFrom(s, <<"?", "*", "<", ">", "|", ":", "\\", "/", "\"">>, 1)

\* line 108: sanitize(an) for each of the pages asked for
sanitized == [a \in Articles |-> sanitize(article_name[a])]

\* None, for a snapshot or a mark: a value no text and no reply equals
None == <<"None">>

\* next(revit, None) at the end of a history: a head that is not a revision
NoRev == [revid |-> 0, parentid |-> 0, timestamp |-> 0, comment |-> <<>>]

\* what a call raises when it raises
StopIteration == <<"StopIteration">>

\* the histories a page can have: no revision (the page does not exist), up
\* to MaxHist revisions, or one more than the iterator yields
HistLens == (0..MaxHist) \cup {max_items + 1}

RECURSIVE Str(_)
\* b'%d' % n, and %d in a pattern: the decimal digits of n >= 0
Str(n) == IF n < 10 THEN <<Digits[n + 1]>> ELSE Str(n \div 10) \o <<Digits[(n % 10) + 1]>>

DigitValue(c) == (CHOOSE d \in 1..10 : Digits[d] = c) - 1

RECURSIVE ParseInt(_)
\* int(n, 10) of a string of digits
ParseInt(s) ==
  IF Len(s) = 1 THEN DigitValue(s[1])
  ELSE ParseInt(SubSeq(s, 1, Len(s) - 1)) * 10 + DigitValue(s[Len(s)])

\* a comment is the sequence of its words (the maximal runs of word characters)
See == <<"s", "e", "e">>

\* the numeric tokens of a comment
NumTokens(comment) == SelectSeq(comment, IsDigit)

\* the comments the revision id can carry when the run has room for `room`
\* more numeric tokens: a token names the revision before it, itself or the
\* one after it, and the one before it may be written with a leading zero
Comments(room, id) ==
  LET named == {n \in {id - 1, id, id + 1} : n >= 1}
  IN  {<<>>}
        \cup (IF room >= 1 THEN {<<See, Str(n)>> : n \in named} ELSE {})
        \cup (IF room >= 1 /\ id > 1 THEN {<<See, <<"0">> \o Str(id - 1)>>} ELSE {})
        \cup (IF room >= 2 THEN {<<Str(n), Str(m)>> : n \in named, m \in named} ELSE {})

\* the lines the fast-import process can answer a get-mark with; the empty
\* line is what readline() returns once the process has closed its output
Replies ==
  { <<>>,
    <<"a", "b", "c", "1", "2", "3">>,
    <<"a", "b", "c", "1", "2", "3", "4">> }

\* the texts the first revision of a page can have, as sequences of lines
FirstTexts == { << <<"a">> >>, << <<"a">>, <<"b">> >> }

\* a revision the service gives no text for (its reply has no '*'): no lines
\* at all, where an empty text is one empty line
NoText == <<>>

\* line 154: .get('*', '') of the reply, as bytes
GetText(T) == IF T = NoText THEN <<>> ELSE JoinLines(T)

\* lines 30-31: the shortest prefix of at least 6 and fewer than len(git)
\* characters that is not all digits; next() raises StopIteration without one
shortgit(git) ==
  LET cands == {ii \in 6..(Len(git) - 1) : ~IsDigit(SubSeq(git, 1, ii))}
  IN  IF cands = {} THEN StopIteration
      ELSE SubSeq(git, 1, CHOOSE ii \in cands : \A jj \in cands : ii <= jj)

(***************************************************************************)
(* The state of main()                                                     *)
(***************************************************************************)
VARIABLES
  args,        \* the parsed command line: doimport, git_refs
  hist,        \* the service: how many revisions each page has (0: no page)
  nextid,      \* the service: the revision id it gives out next
  wikitext,    \* the service: the lines of each page's latest fetched revision
  difffrom,    \* the service: the text the latest diff was taken from
  refs_used,   \* numeric tokens the comments have carried so far
  edits_used,  \* revisions so far whose text differs from their parent's
  pc,          \* where main() is
  err,         \* what ended the run, "" while it has not failed
  fns,         \* line 100
  rev_iters,   \* line 101: how many revisions each page's iterator has yielded
  next_revs,   \* line 102: the head of each page
  lasttext,    \* line 103
  id2git,      \* line 128
  stream,      \* what has been written to fid, one element per write
  nread,       \* how many lines have been read from pipe.stdout
  min_ii,      \* line 137
  rev,         \* line 139
  comment,     \* line 147
  text,        \* lines 154, 247
  prevtext,    \* line 152
  diff,        \* line 163: res.json()['diff']
  diff_k,      \* the entry the loop of line 163 is at
  patch,       \* lines 160-162: output, from_pos
  nums,        \* line 268: the numeric tokens of the comment
  refs,        \* line 266
  summary      \* line 298

vars ==
  <<args, hist, nextid, wikitext, difffrom, refs_used, edits_used, pc, err, fns,
    rev_iters, next_revs, lasttext, id2git, stream, nread, min_ii, rev, comment, text,
    prevtext, diff, diff_k, patch, nums, refs, summary>>

\* the variables of the service and of the bounds on its answers
service == <<hist, nextid, wikitext, difffrom, refs_used, edits_used>>

\* the locals of one iteration of the export loop
locals == <<min_ii, rev, comment, text, prevtext, diff, diff_k, patch, nums, refs, summary>>

\* line 123, and line 118 for a fresh repository
head == "refs/heads/master"

Item(op, arg) == [op |-> op, arg |-> arg]

\* an exception, or the SystemExit of p.error(), leaves main(): nothing more
\* is written, and "with fid" closes the stream
Abort(e) == pc' = "aborted" /\ err' = e

\* a run over a history longer than MaxHist is a plain one: its revisions
\* carry no comment, share one timestamp and leave the text as it is
Plain == \E a \in Articles : hist[a] > MaxHist

\* rev['parentid'] of the revision that follows prev in the history of page
\* a: prev, as a rule; in a history longer than MaxHist the second revision
\* may have come into the page after the third was written on the first (an
\* import, a merge of histories), and the third then names the first
Parents(a, prev) ==
  {prev.revid}
    \cup (IF hist[a] > MaxHist /\ rev_iters[a] = 2 THEN {prev.parentid} ELSE {})

\* lines 110-112 and 315: next(revit, None) on the iterator of page a, whose
\* previous revision is prev
Heads(a, prev) ==
  IF rev_iters[a] >= Min(hist[a], max_items) THEN {NoRev}
  ELSE
    { [revid |-> nextid, parentid |-> par, timestamp |-> ts, comment |-> c] :
        par \in Parents(a, prev),
        ts \in (IF Plain THEN {prev.timestamp}
                ELSE prev.timestamp..Max(MaxTs, prev.timestamp)),
        c \in (IF Plain THEN {<<>>} ELSE Comments(MaxDetail - refs_used - edits_used, nextid)) }

Pull(a, h) ==
  /\ next_revs' = IF a \in DOMAIN next_revs THEN [next_revs EXCEPT ![a] = h]
                  ELSE Append(next_revs, h)
  /\ IF h = NoRev
     THEN UNCHANGED <<rev_iters, nextid, refs_used>>
     ELSE /\ rev_iters' = [rev_iters EXCEPT ![a] = @ + 1]
          /\ nextid' = nextid + 1
          /\ refs_used' = refs_used + Len(NumTokens(h.comment))

Init ==
  /\ args \in {a \in [doimport : BOOLEAN, git_refs : BOOLEAN] : a.doimport \/ ~a.git_refs}
  /\ hist \in [Articles -> HistLens]
  /\ nextid = 1
  /\ wikitext = [a \in Articles |-> <<>>]
  /\ difffrom = <<>>
  /\ refs_used = 0
  /\ edits_used = 0
  /\ pc = "pages"
  /\ err = ""
  /\ fns = <<>>
  /\ rev_iters = [a \in Articles |-> 0]
  /\ next_revs = <<>>
  /\ lasttext = [a \in Articles |-> None]
  /\ id2git = <<>>
  /\ stream = <<>>
  /\ nread = 0
  /\ min_ii = 0
  /\ rev = NoRev
  /\ comment = <<>>
  /\ text = <<>>
  /\ prevtext = None
  /\ diff = <<>>
  /\ diff_k = 0
  /\ patch = PatchState("", <<>>, 0)
  /\ nums = <<>>
  /\ refs = {}
  /\ summary = <<>>

\* lines 104-112: one iteration of the loop over args.article_name
FindPage ==
  /\ pc = "pages"
  /\ Len(fns) < Len(article_name)
  /\ LET a == Len(fns) + 1
     IN  IF hist[a] = 0
         THEN /\ Abort("Page does not exist")
              /\ UNCHANGED <<fns, rev_iters, next_revs, nextid, refs_used>>
         ELSE /\ fns' = Append(fns, sanitized[a])
              /\ \E h \in Heads(a, NoRev) : Pull(a, h)
              /\ UNCHANGED <<pc, err>>
  /\ UNCHANGED <<args, hist, wikitext, difffrom, edits_used, lasttext, id2git, stream, nread>>
  /\ UNCHANGED locals

\* lines 114-128: the stream is opened and the reset directive written
OpenOutput ==
  /\ pc = "pages"
  /\ Len(fns) = Len(article_name)
  /\ stream' = Append(stream, Item("reset", head))
  /\ id2git' = <<>>
  /\ pc' = "loop"
  /\ UNCHANGED <<args, err, fns, rev_iters, next_revs, lasttext, nread>>
  /\ UNCHANGED service
  /\ UNCHANGED locals

RECURSIVE SelectFromTies(_, _, _)
\* the scan with "<=" for "<": of heads with equal timestamps the last wins
SelectFromTies(heads, ii, best) ==
  IF ii > Len(heads) THEN best
  ELSE IF heads[ii] # NoRev
          /\ (best = 0 \/ heads[ii].timestamp <= heads[best].timestamp)
       THEN SelectFromTies(heads, ii + 1, ii)
       ELSE SelectFromTies(heads, ii + 1, best)

RECURSIVE SelectFrom(_, _, _)
\* lines 133-137: the scan for the head with the lowest timestamp.  best is 0
\* while min_ts is still 1<<63, which is above every timestamp; a later head
\* replaces the choice only when its timestamp is strictly lower
SelectFrom(heads, ii, best) ==
  IF ii > Len(heads) THEN best
  ELSE IF heads[ii] # NoRev
          /\ (best = 0 \/ heads[ii].timestamp < heads[best].timestamp)
       THEN SelectFrom(heads, ii + 1, ii)
       ELSE SelectFrom(heads, ii + 1, best)

SelectMin(heads) == SelectFrom(heads, 1, 0)

\* line 131: any(next_revs)
AnyHead == \E a \in DOMAIN next_revs : next_revs[a] # NoRev

\* a registration that rebuilds the table: every mark is unresolved again
RegisterAfresh(marks, id) ==
  [n \in DOMAIN marks \cup {id} |-> None]

\* line 143: id2git[id] = None
Register(marks, id) ==
  [n \in DOMAIN marks \cup {id} |-> IF n = id THEN None ELSE marks[n]]

\* lines 131-152: a head is selected and its mark registered
PickRevision ==
  /\ pc = "loop"
  /\ AnyHead
  /\ LET ii == SelectMin(next_revs)
     IN  /\ min_ii' = ii
         /\ rev' = next_revs[ii]
         /\ id2git' = Register(id2git, next_revs[ii].revid)
         /\ comment' = next_revs[ii].comment
         /\ prevtext' = lasttext[ii]
         /\ pc' = IF lasttext[ii] = None THEN "first" ELSE "compare"
  /\ UNCHANGED <<args, err, fns, rev_iters, next_revs, lasttext, stream, nread>>
  /\ UNCHANGED service
  /\ UNCHANGED <<text, diff, diff_k, patch, nums, refs, summary>>

\* lines 153-155: the first revision of a page is fetched whole
FetchText ==
  /\ pc = "first"
  /\ \E T \in FirstTexts \cup {NoText} :
       /\ wikitext' = [wikitext EXCEPT ![min_ii] = T]
       /\ text' = GetText(T)
       /\ lasttext' = [lasttext EXCEPT ![min_ii] = GetText(T)]
  /\ pc' = "annotate"
  /\ UNCHANGED <<args, err, fns, rev_iters, next_revs, id2git, stream, nread>>
  /\ UNCHANGED <<hist, nextid, difffrom, refs_used, edits_used>>
  /\ UNCHANGED <<min_ii, rev, comment, prevtext, diff, diff_k, patch, nums, refs, summary>>

\* the scripts the service can answer the compare request of the current
\* revision with: one change at most, while the run has room for it
ExportScripts(S) ==
  IF refs_used + edits_used < MaxDetail /\ ~Plain
  THEN {sc \in SingleScripts(S) : Len(ScriptResult(S, sc).lines) \in 1..MaxLines}
  ELSE {Identity(S)}

\* lines 157-162: the diff from the parent is fetched; the service has none
\* to give when it has no text for the parent
FetchDiff ==
  /\ pc = "compare"
  /\ \/ /\ Abort("HTTPError")
        /\ UNCHANGED <<wikitext, difffrom, edits_used, diff, diff_k, patch>>
     \/ \E sc \in ExportScripts(wikitext[min_ii]) :
          LET r == ScriptResult(wikitext[min_ii], sc)
          IN  /\ wikitext' = [wikitext EXCEPT ![min_ii] = r.lines]
              /\ difffrom' = JoinLines(wikitext[min_ii])
              /\ edits_used' = edits_used + (IF r.lines = wikitext[min_ii] THEN 0 ELSE 1)
              /\ diff' = r.diff
              /\ diff_k' = 1
              /\ patch' = PatchState("", <<>>, 0)
              /\ wikitext[min_ii] # NoText
              /\ pc' = "diff"
              /\ UNCHANGED err
  /\ UNCHANGED <<args, fns, rev_iters, next_revs, lasttext, id2git, stream, nread>>
  /\ UNCHANGED <<hist, nextid, refs_used>>
  /\ UNCHANGED <<min_ii, rev, comment, text, prevtext, nums, refs, summary>>

\* lines 163-241: one entry of the diff is applied
DiffEntry ==
  /\ pc = "diff"
  /\ diff_k <= Len(diff)
  /\ LET st == ApplyEntry(prevtext, diff[diff_k], patch)
     IN  IF st.err # ""
         THEN /\ Abort(st.err)
              /\ UNCHANGED <<patch, diff_k>>
         ELSE /\ patch' = st
              /\ diff_k' = diff_k + 1
              /\ UNCHANGED <<pc, err>>
  /\ UNCHANGED <<args, fns, rev_iters, next_revs, lasttext, id2git, stream, nread>>
  /\ UNCHANGED service
  /\ UNCHANGED <<min_ii, rev, comment, text, prevtext, diff, nums, refs, summary>>

\* lines 242-246: the rest of the previous text is copied, and the output
\* becomes the page's snapshot
DiffRest ==
  /\ pc = "diff"
  /\ diff_k > Len(diff)
  /\ LET output == patch.output \o SliceFrom(prevtext, patch.from_pos)
     IN  /\ patch' = [patch EXCEPT !.output = output]
         /\ lasttext' = [lasttext EXCEPT ![min_ii] = output]
  /\ pc' = "verify"
  /\ UNCHANGED <<args, err, fns, rev_iters, next_revs, id2git, stream, nread>>
  /\ UNCHANGED service
  /\ UNCHANGED <<min_ii, rev, comment, text, prevtext, diff, diff_k, nums, refs, summary>>

\* a comparison that lets every reconstructed text through
VerifyTextUnchecked ==
  /\ pc = "verify"
  /\ text' = JoinLines(wikitext[min_ii])
  /\ pc' = "annotate"
  /\ UNCHANGED <<args, err, fns, rev_iters, next_revs, lasttext, id2git, stream, nread>>
  /\ UNCHANGED service
  /\ UNCHANGED <<min_ii, rev, comment, prevtext, diff, diff_k, patch, nums, refs, summary>>

\* lines 247-256: the revision's text is fetched and compared with the output
VerifyText ==
  /\ pc = "verify"
  /\ text' = JoinLines(wikitext[min_ii])
  /\ IF CrossCheck(patch.output, JoinLines(wikitext[min_ii]))
     THEN pc' = "annotate" /\ UNCHANGED err
     ELSE Abort("mismatch")
  /\ UNCHANGED <<args, fns, rev_iters, next_revs, lasttext, id2git, stream, nread>>
  /\ UNCHANGED service
  /\ UNCHANGED <<min_ii, rev, comment, prevtext, diff, diff_k, patch, nums, refs, summary>>

\* lines 266-268: the references start empty and the comment's numeric
\* tokens are found; nothing is looked up without a fast-import process
ScanComment ==
  /\ pc = "annotate"
  /\ refs' = {}
  /\ nums' = IF args.doimport THEN NumTokens(comment) ELSE <<>>
  /\ pc' = "refs"
  /\ UNCHANGED <<args, err, fns, rev_iters, next_revs, lasttext, id2git, stream, nread>>
  /\ UNCHANGED service
  /\ UNCHANGED <<min_ii, rev, comment, text, prevtext, diff, diff_k, patch, summary>>

\* a lookup that writes its request and goes on to the next token without
\* reading the reply
LookupTokenUnanswered ==
  /\ pc = "refs"
  /\ nums # <<>>
  /\ LET num == ParseInt(Head(nums))
     IN  IF num \in DOMAIN id2git
         THEN /\ IF id2git[num] = None
                 THEN stream' = Append(stream, Item("get-mark", num))
                 ELSE UNCHANGED stream
              /\ refs' = refs \cup {num}
              /\ nums' = Tail(nums)
              /\ UNCHANGED pc
         ELSE /\ nums' = Tail(nums)
              /\ UNCHANGED <<stream, pc, refs>>
  /\ UNCHANGED <<args, err, fns, rev_iters, next_revs, lasttext, id2git, nread>>
  /\ UNCHANGED service
  /\ UNCHANGED <<min_ii, rev, comment, text, prevtext, diff, diff_k, patch, summary>>

\* lines 268-274, up to the flush: the next numeric token is looked up, and
\* the mark of a registered revision that has no hash yet is asked for
LookupToken ==
  /\ pc = "refs"
  /\ nums # <<>>
  /\ LET num == ParseInt(Head(nums))
     IN  IF num \in DOMAIN id2git
         THEN IF id2git[num] = None
              THEN /\ stream' = Append(stream, Item("get-mark", num))
                   /\ pc' = "readline"
                   /\ UNCHANGED <<nums, refs>>
              ELSE /\ refs' = refs \cup {num}
                   /\ nums' = Tail(nums)
                   /\ UNCHANGED <<stream, pc>>
         ELSE /\ nums' = Tail(nums)
              /\ UNCHANGED <<stream, pc, refs>>
  /\ UNCHANGED <<args, err, fns, rev_iters, next_revs, lasttext, id2git, nread>>
  /\ UNCHANGED service
  /\ UNCHANGED <<min_ii, rev, comment, text, prevtext, diff, diff_k, patch, summary>>

\* lines 273-274: one line of the process's output is read and kept
ReadReply ==
  /\ pc = "readline"
  /\ LET num == ParseInt(Head(nums))
     IN  /\ \E line \in Replies : id2git' = [id2git EXCEPT ![num] = line]
         /\ refs' = refs \cup {num}
  /\ nums' = Tail(nums)
  /\ nread' = nread + 1
  /\ pc' = "refs"
  /\ UNCHANGED <<args, err, fns, rev_iters, next_revs, lasttext, stream>>
  /\ UNCHANGED service
  /\ UNCHANGED <<min_ii, rev, comment, text, prevtext, diff, diff_k, patch, summary>>

\* line 279: every token that is the decimal form of a reference becomes the
\* short hash of that reference
Rewrite(c, marks, rs) ==
  [k \in 1..Len(c) |->
     IF \E num \in rs : c[k] = Str(num)
     THEN shortgit(marks[CHOOSE num \in rs : c[k] = Str(num)])
     ELSE c[k]]

\* line 296
Blank == <<"<blank>">>

\* lines 298-303: the message; references is the References trailer, empty
\* when there is none
Summary(c, id, marks, rs, git_refs) ==
  [comment |-> IF c = <<>> THEN <<Blank>> ELSE c,
   url |-> id,
   references |-> IF rs # {} /\ ~git_refs THEN {<<r, marks[r]>> : r \in rs} ELSE {}]

\* lines 276-306: the references are rewritten and the message is built
Annotate ==
  /\ pc = "refs"
  /\ nums = <<>>
  /\ IF args.doimport /\ args.git_refs
        /\ \E num \in refs : shortgit(id2git[num]) = StopIteration
     THEN /\ Abort("StopIteration")
          /\ UNCHANGED <<comment, summary>>
     ELSE LET c == IF args.doimport /\ args.git_refs
                   THEN Rewrite(comment, id2git, refs)
                   ELSE comment
          IN  /\ comment' = c
              /\ summary' = Summary(c, rev.revid, id2git, refs, args.git_refs)
              /\ pc' = "commit"
              /\ UNCHANGED err
  /\ UNCHANGED <<args, fns, rev_iters, next_revs, lasttext, id2git, stream, nread>>
  /\ UNCHANGED service
  /\ UNCHANGED <<min_ii, rev, text, prevtext, diff, diff_k, patch, nums, refs>>

\* one write of lines 307-312
Write(at, item, to) ==
  /\ pc = at
  /\ stream' = Append(stream, item)
  /\ pc' = to
  /\ UNCHANGED <<args, err, fns, rev_iters, next_revs, lasttext, id2git, nread>>
  /\ UNCHANGED service
  /\ UNCHANGED locals

\* line 307
WriteCommit == Write("commit", Item("commit", head), "mark")

\* line 308
WriteMark == Write("mark", Item("mark", rev.revid), "committer")

\* line 309
WriteCommitter == Write("committer", Item("committer", rev.timestamp), "message")

\* line 310
WriteMessage == Write("message", Item("message", summary), "modify")

\* line 311
WriteModify == Write("modify", Item("M", fns[min_ii]), "content")

\* line 312
WriteContent == Write("content", Item("content", text), "refill")

\* a refill that pulls from the page after the selected one
NextRevisionOther ==
  /\ pc = "refill"
  /\ LET a == (min_ii % Len(next_revs)) + 1
     IN  \E h \in Heads(a, next_revs[a]) : Pull(a, h)
  /\ pc' = "loop"
  /\ UNCHANGED <<args, err, fns, lasttext, id2git, stream, nread>>
  /\ UNCHANGED <<hist, wikitext, difffrom, edits_used>>
  /\ UNCHANGED locals

\* line 315: the head of the page just written is refilled
NextRevision ==
  /\ pc = "refill"
  /\ \E h \in Heads(min_ii, rev) : Pull(min_ii, h)
  /\ pc' = "loop"
  /\ UNCHANGED <<args, err, fns, lasttext, id2git, stream, nread>>
  /\ UNCHANGED <<hist, wikitext, difffrom, edits_used>>
  /\ UNCHANGED locals

\* a completion directive written while a page still has a revision left
WriteDoneEarly ==
  /\ pc = "loop"
  /\ stream' = Append(stream, Item("done", head))
  /\ pc' = "finished"
  /\ UNCHANGED <<args, err, fns, rev_iters, next_revs, lasttext, id2git, nread>>
  /\ UNCHANGED service
  /\ UNCHANGED locals

\* lines 316-317: the loop's else branch, once no page has a head
WriteDone ==
  /\ pc = "loop"
  /\ ~AnyHead
  /\ stream' = Append(stream, Item("done", head))
  /\ pc' = "finished"
  /\ UNCHANGED <<args, err, fns, rev_iters, next_revs, lasttext, id2git, nread>>
  /\ UNCHANGED service
  /\ UNCHANGED locals

Next ==
  \/ FindPage
  \/ OpenOutput
  \/ PickRevision
  \/ FetchText
  \/ FetchDiff
  \/ DiffEntry
  \/ DiffRest
  \/ VerifyText
  \/ ScanComment
  \/ LookupToken
  \/ ReadReply
  \/ Annotate
  \/ WriteCommit
  \/ WriteMark
  \/ WriteCommitter
  \/ WriteMessage
  \/ WriteModify
  \/ WriteContent
  \/ NextRevision
  \/ WriteDone

Spec == Init /\ [][Next]_vars

\* main() is one thread: the statement it is at runs, and the service and
\* the fast-import process answer every request
SpecFair == Spec /\ WF_vars(Next)

(***************************************************************************)
(* The reconstruction on its own: main() at line 160, about to rebuild the *)
(* second revision of the first page from any base text of at most         *)
(* MaxLines lines and the diff of any script of at most MaxOps changes;    *)
(* the base may be the parent's text with the newline the previous         *)
(* reconstruction can leave at its end, and the service may have got the   *)
(* text of one context or deleted line wrong.                              *)
(***************************************************************************)
\* the diffs that differ from D in the text of at most one context or
\* deleted line
Miscopied(D) ==
  {D} \cup UNION {{[D EXCEPT ![k].text = w] : w \in Lines \ {D[k].text}} :
                    k \in {j \in 1..Len(D) : D[j].type \in {TyContext, TyDelete}}}

\* the first revision of the first page, and the second one, which is being
\* rebuilt; the second page has its first revision at its head
PatchFirst == [revid |-> 1, parentid |-> 0, timestamp |-> 0, comment |-> <<>>]

PatchOther == [revid |-> 2, parentid |-> 0, timestamp |-> 1, comment |-> <<>>]

PatchSecond == [revid |-> 3, parentid |-> 1, timestamp |-> 0, comment |-> <<>>]

InitPatch ==
  /\ args = [doimport |-> FALSE, git_refs |-> FALSE]
  /\ hist = [a \in Articles |-> IF a = 1 THEN 2 ELSE 1]
  /\ nextid = 4
  /\ refs_used = 0
  /\ edits_used = 0
  /\ pc = "diff"
  /\ err = ""
  /\ fns = sanitized
  /\ rev_iters = [a \in Articles |-> IF a = 1 THEN 2 ELSE 1]
  /\ next_revs = [a \in Articles |-> IF a = 1 THEN PatchSecond ELSE PatchOther]
  /\ id2git = Register(Register(<<>>, 1), 3)
  /\ min_ii = 1
  /\ rev = PatchSecond
  /\ comment = <<>>
  /\ \E S \in TextsUpTo(MaxLines) :
       /\ stream = << Item("reset", head), Item("commit", head), Item("mark", 1),
                      Item("committer", 0),
                      Item("message", Summary(<<>>, 1, id2git, {}, FALSE)),
                      Item("M", fns[1]), Item("content", JoinLines(S)) >>
       /\ text = JoinLines(S)
       /\ difffrom = JoinLines(S)
       /\ prevtext \in {JoinLines(S), JoinLines(S) \o <<NL>>}
       /\ lasttext = [a \in Articles |-> IF a = 1 THEN prevtext ELSE None]
       /\ \E sc \in Scripts(S, MaxOps) :
            /\ wikitext = [a \in Articles |-> IF a = 1 THEN ScriptResult(S, sc).lines ELSE <<>>]
            /\ diff \in Miscopied(ScriptResult(S, sc).diff)
  /\ nread = 0
  /\ diff_k = 1
  /\ patch = PatchState("", <<>>, 0)
  /\ nums = <<>>
  /\ refs = {}
  /\ summary = <<>>

NextPatch ==
  \/ DiffEntry
  \/ DiffRest
  \/ VerifyText

SpecPatch == InitPatch /\ [][NextPatch]_vars

(***************************************************************************)
\* the reconstruction followed by the rest of the iteration, up to the last
\* write of the commit record
NextVerify ==
  \/ DiffEntry
  \/ DiffRest
  \/ VerifyText
  \/ ScanComment
  \/ Annotate
  \/ WriteCommit
  \/ WriteMark
  \/ WriteCommitter
  \/ WriteMessage
  \/ WriteModify
  \/ WriteContent

SpecVerify == InitPatch /\ [][NextVerify]_vars

(* Claims about the reconstruction (checked under SpecPatch)               *)
(***************************************************************************)
RECURSIVE LineAt(_, _)
\* the line of s that starts at byte offset from: up to the next newline
LineAt(s, from) ==
  IF from >= Len(s) \/ s[from + 1] = NL THEN <<>>
  ELSE <<s[from + 1]>> \o LineAt(s, from + 1)

\* the entry asserts a context or removed text that is not the base's line at
\* the offset the entry gives
Mismatches(d) ==
  d.type \in {TyContext, TyDelete} /\ LineAt(prevtext, d.from) # d.text

\* the diff is the one the service derives from the base and the target
DerivedDiff ==
  /\ prevtext = difffrom
  /\ \A k \in 1..Len(diff) : ~Mismatches(diff[k])

\* C3: applying a diff derived from the base S and the target T to S raises
\* nothing and yields exactly T.
C3_RoundTrip ==
  DerivedDiff =>
    /\ err = ""
    /\ pc = "verify" => patch.output = JoinLines(wikitext[min_ii])

\* C4: a diff with an entry whose context or removed text is not the base's
\* text at the entry's offset never gets through the reconstruction: the
\* revision is not passed on to be committed.
C4_MismatchDetected ==
  (\E k \in 1..Len(diff) : Mismatches(diff[k])) => pc # "annotate"

(***************************************************************************)
(* Claims about the export (checked under Spec)                            *)
(***************************************************************************)
\* the commit records written in full: the places of their commit directives
Records == {p \in 1..Len(stream) : stream[p].op = "commit" /\ p + 5 <= Len(stream)}

RecMark(p) == stream[p + 1].arg

RecTs(p) == stream[p + 2].arg

RecMsg(p) == stream[p + 3].arg

RecFn(p) == stream[p + 4].arg

RecText(p) == stream[p + 5].arg

\* the page whose tracked file is fn
ArticleOf(fn) == CHOOSE a \in DOMAIN fns : fns[a] = fn

\* the mark-resolution requests written: their places
Requests == {p \in 1..Len(stream) : stream[p].op = "get-mark"}

\* C1: the revisions are emitted in ascending order of timestamp, and of two
\* revisions with the same timestamp the one of the lower source index is
\* emitted first.
C1_MergeOrder ==
  \A p \in Records : \A q \in Records :
    p < q =>
      /\ RecTs(p) <= RecTs(q)
      /\ RecTs(p) = RecTs(q) => ArticleOf(RecFn(p)) <= ArticleOf(RecFn(q))

\* two pages with two revisions each were emitted alternately, the first two
\* on a tie of timestamps
C1_Witness ==
  /\ pc = "finished"
  /\ \E p, q, r, t \in Records :
       /\ p < q /\ q < r /\ r < t
       /\ <<ArticleOf(RecFn(p)), ArticleOf(RecFn(q)), ArticleOf(RecFn(r)), ArticleOf(RecFn(t))>>
            = <<1, 2, 1, 2>>
       /\ RecTs(p) = RecTs(q)
       /\ RecTs(q) < RecTs(r)

\* C2: when the export has finished, every revision of every requested page
\* has exactly one commit record, which replaces that page's file.
C2_FullHistory ==
  pc = "finished" =>
    /\ \A a \in Articles : Cardinality({p \in Records : RecFn(p) = fns[a]}) = hist[a]
    /\ \A p \in Records : \A q \in Records : RecMark(p) = RecMark(q) => p = q

\* C5: a mark is asked for only after the commit record that carries it has
\* been written in full, and the references of a message name only
\* revisions whose commit record has been written.
C5_ResolveAfterCommit ==
  /\ \A p \in Requests :
       \E q \in Records : q + 5 < p /\ RecMark(q) = stream[p].arg
  /\ \A n \in refs : \E q \in Records : RecMark(q) = n

\* C6: at most one request is outstanding, nothing is written after a request
\* before its reply has been read, and a request is written only between
\* commit records.
C6_LockStep ==
  /\ Cardinality(Requests) - nread \in {0, 1}
  /\ Cardinality(Requests) - nread = 1 => stream[Len(stream)].op = "get-mark"
  /\ \A p \in Requests : stream[p - 1].op \in {"reset", "content", "get-mark"}

\* two requests were written and answered, and the export went on to its end
C6_Witness ==
  /\ pc = "finished"
  /\ Cardinality(Requests) = 2
  /\ nread = 2

\* C7: a resolved mark keeps its value in every step, and no mark is asked
\* for twice.
C7_MarksMonotonic ==
  /\ [][\A n \in DOMAIN id2git :
          id2git[n] # None => n \in DOMAIN id2git' /\ id2git'[n] = id2git[n]]_vars
  /\ [](\A p \in Requests : \A q \in Requests : stream[p].arg = stream[q].arg => p = q)

\* a token names a mark that has been resolved before: the lookup finds the
\* cached value, after a later revision has been registered
C7_Witness ==
  /\ pc = "refs"
  /\ nums # <<>>
  /\ ParseInt(Head(nums)) \in DOMAIN id2git
  /\ id2git[ParseInt(Head(nums))] \notin {None, <<>>}
  /\ \E n \in DOMAIN id2git : n > ParseInt(Head(nums))

\* C8: a comment "see <n>", n an emitted revision whose mark resolved to H:
\* with rewriting the message reads "see H" (H, or the prefix of at least 6
\* characters that stands for it) and has no References trailer; without,
\* the comment is unchanged and the trailer lists n with H.  The rewriting
\* fails for no identifier the process has returned.
C8_ReferenceRewritten ==
  /\ err = "StopIteration" => \E n \in refs : id2git[n] = <<>> \/ n = rev.revid
  /\ \A n \in refs :
       ( /\ pc \in {"commit", "mark", "committer", "message", "modify", "content", "refill"}
         /\ rev.comment = <<See, Str(n)>>
         /\ n # rev.revid
         /\ id2git[n] # <<>> )
       => IF args.git_refs
          THEN /\ Len(summary.comment) = 2
               /\ summary.comment[1] = See
               /\ Len(summary.comment[2]) >= 6
               /\ StartsWith(id2git[n], summary.comment[2])
               /\ summary.references = {}
          ELSE /\ summary.comment = rev.comment
               /\ summary.references = {<<n, id2git[n]>>}

\* C9: a run that has failed has written no part of a commit record after
\* its last complete one and no completion directive, and once a mark
\* resolution has failed (the reply is empty) nothing more is written.
C9_AbortBeforeCommit ==
  /\ pc = "aborted" =>
       \A p \in 1..Len(stream) :
         /\ stream[p].op # "done"
         /\ p = Len(stream) => stream[p].op \in {"reset", "content", "get-mark"}
  /\ (\E n \in DOMAIN id2git : id2git[n] = <<>>) =>
       /\ stream[Len(stream)].op = "get-mark"
       /\ id2git[stream[Len(stream)].arg] = <<>>

\* what may be written right after what
Follows(before, after) ==
  CASE after \in {"get-mark", "commit"} -> before \in {"reset", "content", "get-mark"}
    [] after = "mark" -> before = "commit"
    [] after = "committer" -> before = "mark"
    [] after = "message" -> before = "committer"
    [] after = "M" -> before = "message"
    [] after = "content" -> before = "M"
    [] after = "done" -> before \in {"reset", "content"}
    [] OTHER -> FALSE

C11_MissingBaseRevision ==
  \A a \in DOMAIN fns :
    (lasttext[a] # None /\ wikitext[a] = NoText) =>
      /\ pc = "aborted"
      /\ err = "MissingBaseRevisionError"
      /\ \A p \in Records : RecFn(p) # fns[a]

\* C12: an empty reply to a mark request is never kept as a resolved
\* identifier and no message cites it: the run stops at the failed request.
C12_FailedResolutionAborts ==
  /\ \A n \in DOMAIN id2git : id2git[n] # <<>>
  /\ \A p \in 1..Len(stream) :
       stream[p].op = "message" => \A r \in stream[p].arg.references : r[2] # <<>>
  /\ (nread > 0 /\ pc \notin {"aborted"}) =>
       \A n \in refs : id2git[n] \notin {None, <<>>}

\* the comment of the message of a revision whose comment is c and is not
\* rewritten
PlainComment(c) == IF c = <<>> THEN <<Blank>> ELSE c

\* C13: both modes write the same reset directive and, for the revision at
\* hand, the same commit record (mark, time, file, content, URL), and stop at
\* the same places; only the live mode writes requests, reads replies and
\* lets resolved references into a message, and it never stops where the
\* file mode would have gone on.
C13_ModesAgree ==
  /\ stream # <<>> => stream[1] = Item("reset", head)
  /\ ~args.doimport =>
       /\ Requests = {}
       /\ nread = 0
       /\ refs = {}
       /\ \A p \in 1..Len(stream) :
            stream[p].op = "message" => stream[p].arg.references = {}
  /\ pc = "refill" =>
       LET p == Len(stream) - 5
       IN  /\ stream[p] = Item("commit", head)
           /\ RecMark(p) = rev.revid
           /\ RecTs(p) = rev.timestamp
           /\ RecFn(p) = fns[min_ii]
           /\ RecText(p) = text
           /\ RecMsg(p).url = rev.revid
           /\ refs = {} =>
                RecMsg(p) = Summary(PlainComment(rev.comment), rev.revid, id2git, {}, FALSE)
  /\ err # "StopIteration"

\* the record written last for page a, if any
LastRecord(a) ==
  LET ps == {p \in Records : RecFn(p) = fns[a]}
  IN  IF ps = {} THEN 0 ELSE CHOOSE p \in ps : \A q \in ps : q <= p

\* C14: the commit record of a reconstructed revision is written only when
\* the reconstruction is the fetched text of the revision, or that text and
\* one newline; and between iterations the snapshot of every page is the
\* content of the page's latest commit record, or that content and one
\* newline.
C14_CrossChecked ==
  /\ (pc \in {"commit", "mark", "committer", "message", "modify", "content", "refill"}
        /\ prevtext # None) =>
       /\ text = JoinLines(wikitext[min_ii])
       /\ patch.output \in {text, text \o <<NL>>}
       /\ lasttext[min_ii] = patch.output
  /\ \A a \in Articles :
       (pc \in {"refill", "loop", "finished"} \/ (pc # "pages" /\ a # min_ii)) =>
         IF a \in DOMAIN fns /\ LastRecord(a) # 0
         THEN lasttext[a] \in {RecText(LastRecord(a)), RecText(LastRecord(a)) \o <<NL>>}
         ELSE lasttext[a] = None

\* a revision was rebuilt from a diff with the newline too many, and its
\* commit record has been written
C14_Witness ==
  /\ pc = "refill"
  /\ diff # <<>>
  /\ patch.output = text \o <<NL>>
  /\ RecText(LastRecord(min_ii)) = text

\* C15: once the pages are found, a step changes the head of a page only if
\* the page is the selected one, its head is the revision at hand and the
\* commit record of that revision has been written in full; it changes the
\* snapshot of a page only if the page is the selected one; an iteration
\* starts with the selected page's head and pulls one revision at most, from
\* that page's source.
C15_Frame ==
  [][pc # "pages" =>
       /\ \A a \in DOMAIN next_revs :
            next_revs'[a] # next_revs[a] =>
              /\ a = min_ii
              /\ pc = "refill"
              /\ rev = next_revs[a]
              /\ Len(stream) - 5 \in Records
              /\ RecMark(Len(stream) - 5) = next_revs[a].revid
       /\ \A a \in Articles :
            /\ lasttext'[a] # lasttext[a] => a = min_ii /\ min_ii' = min_ii
            /\ rev_iters'[a] # rev_iters[a] =>
                 a = min_ii /\ pc = "refill" /\ rev_iters'[a] = rev_iters[a] + 1
       /\ (pc = "loop" /\ pc' # "loop" /\ pc' # "finished") =>
            /\ min_ii' = SelectMin(next_revs)
            /\ rev' = next_revs[min_ii']
            /\ next_revs' = next_revs]_vars

\* the second page's head has just been refilled while the first page has a
\* head waiting and a snapshot
C15_Witness ==
  /\ pc = "loop"
  /\ min_ii = 2
  /\ next_revs[1] # NoRev
  /\ next_revs[2] # NoRev
  /\ lasttext[1] # None
  /\ Cardinality(Records) >= 2

RECURSIVE SumSeq(_)
SumSeq(q) == IF q = <<>> THEN 0 ELSE Head(q) + SumSeq(Tail(q))

\* the run was stopped by the service: a page does not exist, a request
\* failed, or the fast-import process gave no answer
StoppedByService ==
  \/ err \in {"Page does not exist", "HTTPError"}
  \/ \E n \in DOMAIN id2git : id2git[n] = <<>>

\* C16: the loop ends and the completion directive is written, unless the
\* service stops the run; the finished run has one commit record for every
\* revision the sources have yielded and no head left, and a loop without
\* heads leads to the completion directive.
C16_Terminates ==
  /\ <>(pc = "finished" \/ StoppedByService)
  /\ [](pc = "finished" =>
          /\ ~AnyHead
          /\ Cardinality(Records) = SumSeq(rev_iters)
          /\ stream[Len(stream)] = Item("done", head))
  /\ ((pc = "loop" /\ ~AnyHead) ~> (pc = "finished"))

\* the comment c has a numeric token of value n
Names(c, n) == \E k \in 1..Len(c) : IsDigit(c[k]) /\ ParseInt(c[k]) = n

\* C17: an identifier enters the table unresolved, in the step that schedules
\* its revision; it becomes resolved only in the step that reads the reply
\* to the one request for it, made for a numeric token of that value in the
\* comment of a later revision; there is no request for an identifier that
\* is unresolved.
C17_DemandDriven ==
  /\ [][/\ \A n \in DOMAIN id2git' \ DOMAIN id2git :
             /\ pc = "loop"
             /\ n = next_revs[SelectMin(next_revs)].revid
             /\ id2git'[n] = None
        /\ \A n \in DOMAIN id2git :
             (id2git[n] = None /\ n \in DOMAIN id2git' /\ id2git'[n] # None) =>
               /\ rev.revid # n
               /\ Names(rev.comment, n)
               /\ stream[Len(stream)] = Item("get-mark", n)
               /\ nread' = nread + 1]_vars
  /\ [](\A p \in Requests :
          id2git[stream[p].arg] = None => (pc = "readline" /\ p = Len(stream)))

\* C18: in the message of a revision, every numeric token of the comment
\* whose value is a reference found and resolved is either replaced by the
\* resolved identifier (or the prefix that stands for it) or listed with it
\* in the References trailer.
C18_ReferencesShown ==
  pc \in {"commit", "mark", "committer", "message", "modify", "content", "refill"} =>
    \A k \in 1..Len(rev.comment) :
      (IsDigit(rev.comment[k])
         /\ ParseInt(rev.comment[k]) \in refs
         /\ id2git[ParseInt(rev.comment[k])] \notin {None, <<>>}) =>
        LET n == ParseInt(rev.comment[k])
        IN  \/ /\ Len(summary.comment) = Len(rev.comment)
               /\ summary.comment[k] # rev.comment[k]
               /\ StartsWith(id2git[n], summary.comment[k])
            \/ <<n, id2git[n]>> \in summary.references

\* C19: when a diff is applied, the revision's recorded parent is the
\* revision of the latest commit record of its page, and the base of the
\* reconstruction is the content of that record, or that content and one
\* newline.
C19_BaseIsParent ==
  pc \in {"diff", "verify"} =>
    /\ LastRecord(min_ii) # 0
    /\ rev.parentid = RecMark(LastRecord(min_ii))
    /\ prevtext \in {RecText(LastRecord(min_ii)), RecText(LastRecord(min_ii)) \o <<NL>>}

\* C20: for every identifier a request has resolved, the text substituted
\* for a reference to it is defined, is a prefix of it of at least 6
\* characters and is not all digits; so no token the rewrite has put into a
\* comment is a numeric token.
C20_ShortIdentifier ==
  /\ args.git_refs =>
       \A n \in DOMAIN id2git :
         id2git[n] \notin {None, <<>>} =>
           /\ shortgit(id2git[n]) # StopIteration
           /\ Len(shortgit(id2git[n])) >= 6
           /\ StartsWith(id2git[n], shortgit(id2git[n]))
           /\ ~IsDigit(shortgit(id2git[n]))
  /\ (args.git_refs
        /\ pc \in {"commit", "mark", "committer", "message", "modify", "content", "refill"}) =>
       \A k \in 1..Len(summary.comment) :
         summary.comment[k] # PlainComment(rev.comment)[k] => ~IsDigit(summary.comment[k])

====
